---- MODULE Spec2Model ----
(***************************************************************************)
(* web-ext-native-messaging: the length-prefixed framing of WebExtension   *)
(* native messaging (src/source/lib.rs), with serde_json as the            *)
(* (de)serializer and D = S = String as in the crate's own examples.       *)
(*                                                                         *)
(* Byte strings are sequences of runs [b |-> byte, n |-> count].  A count  *)
(* is a Size [hi, lo] standing for hi * 2^16 + lo, so that lengths around  *)
(* 2^32 (the u32 length field's limit) are exact in 32-bit arithmetic.     *)
(***************************************************************************)
EXTENDS Integers, Sequences, FiniteSets, TLC

VARIABLES
  endian,      \* byte order of the build target ("le" | "be"): NativeEndian
  buffer,      \* the writer: every operation it accepted, in order
  input,       \* the reader: the bytes not yet consumed (end of input follows)
  wcalls,      \* history: the write calls that returned
  rcalls,      \* history: the read calls that returned
  pc,          \* per thread: position inside read_message / write_message
  loc,         \* per thread: the locals of the call in progress
  stdoutLock,  \* threads holding the guard of std::io::stdout().lock()
  stdinLock,   \* threads holding the guard of std::io::stdin().lock()
  order        \* history: threads in the order they took the stdout lock

vars == <<endian, buffer, input, wcalls, rcalls, pc, loc, stdoutLock, stdinLock, order>>

----------------------------------------------------------------------------
(* Bounds of the model. *)

MaxText == 1      \* characters in a small message
MaxFrames == 2    \* write calls in the loopback specification
MaxReads == 2     \* read calls in one behaviour
MaxLenField == 4  \* largest length field of a generated source
MaxPayload == 3   \* bytes behind the length field of a generated source
MaxCalls == 2     \* read_message / write_message calls of the threads together

----------------------------------------------------------------------------
(* Sizes: usize / u64 / u32 quantities as two 16-bit-based limbs. *)

Limb == 256 * 256

SZ(k) == [hi |-> k \div Limb, lo |-> k % Limb]

Zero == SZ(0)
One == SZ(1)

SAdd(a, b) ==
  LET l == a.lo + b.lo
  IN  [hi |-> a.hi + b.hi + (l \div Limb), lo |-> l % Limb]

SLe(a, b) == a.hi < b.hi \/ (a.hi = b.hi /\ a.lo <= b.lo)

SLt(a, b) == SLe(a, b) /\ a # b

\* a - b, for b <= a
SSub(a, b) ==
  IF a.lo >= b.lo
    THEN [hi |-> a.hi - b.hi, lo |-> a.lo - b.lo]
    ELSE [hi |-> a.hi - b.hi - 1, lo |-> a.lo + Limb - b.lo]

SMin(a, b) == IF SLe(a, b) THEN a ELSE b

\* u32::MAX = 4,294,967,295
U32Max == [hi |-> Limb - 1, lo |-> Limb - 1]

----------------------------------------------------------------------------
(* Byte strings. *)

B(x) == [b |-> x, n |-> One]

Bytes(xs) == [i \in 1..Len(xs) |-> B(xs[i])]

RECURSIVE BLen(_)
BLen(s) == IF s = <<>> THEN Zero ELSE SAdd(Head(s).n, BLen(Tail(s)))

\* s without its first byte
Peel(s) ==
  IF Head(s).n = One
    THEN Tail(s)
    ELSE <<[Head(s) EXCEPT !.n = SSub(@, One)]>> \o Tail(s)

\* s without its first k bytes, k <= the first run's count
DropRun(s, k) ==
  IF Head(s).n = k
    THEN Tail(s)
    ELSE <<[Head(s) EXCEPT !.n = SSub(@, k)]>> \o Tail(s)

\* the first k bytes of s (fewer when s is shorter), as numbers
RECURSIVE TakeBytes(_, _)
TakeBytes(s, k) ==
  IF k = 0 \/ s = <<>> THEN <<>>
  ELSE <<Head(s).b>> \o TakeBytes(Peel(s), k - 1)

RECURSIVE DropBytes(_, _)
DropBytes(s, k) ==
  IF k = 0 \/ s = <<>> THEN s ELSE DropBytes(Peel(s), k - 1)

\* s without its first k bytes, k a Size
RECURSIVE DropSize(_, _)
DropSize(s, k) ==
  IF k = Zero \/ s = <<>> THEN s
  ELSE LET d == SMin(Head(s).n, k)
       IN  DropSize(DropRun(s, d), SSub(k, d))

----------------------------------------------------------------------------
(* Results: Result<_, MessagingError>. *)

Ok(v) == [ok |-> TRUE, val |-> v, err |-> "none", cat |-> "none"]

\* err is the MessagingError variant; cat tells the serde_json or io error apart
Err(e, c) == [ok |-> FALSE, val |-> <<>>, err |-> e, cat |-> c]

----------------------------------------------------------------------------
(* serde_json, for a String message. *)

Quote == 34
Backslash == 92
Whitespace == {32, 10, 9, 13}

\* the bytes serde_json writes behind a backslash (format_escaped_str)
EscapeOf(c) ==
  CASE c = 34 -> 34
    [] c = 92 -> 92
    [] c = 8 -> 98
    [] c = 9 -> 116
    [] c = 10 -> 110
    [] c = 12 -> 102
    [] c = 13 -> 114

\* the characters serde_json never writes or accepts raw inside a string
NeedsEscape(c) == c < 32 \/ c = Quote \/ c = Backslash

\* the two-character escapes parse_escape accepts (\u is not modelled)
Escapes == {34, 92, 47, 98, 102, 110, 114, 116}

Unescape(c) ==
  CASE c = 34 -> 34
    [] c = 92 -> 92
    [] c = 47 -> 47
    [] c = 98 -> 8
    [] c = 102 -> 12
    [] c = 110 -> 10
    [] c = 114 -> 13
    [] c = 116 -> 9

\* Mutation of EscapeStr: the backslash itself is written raw.
RECURSIVE EscapeStrRawBackslash(_)
EscapeStrRawBackslash(text) ==
  IF text = <<>> THEN <<>>
  ELSE (IF NeedsEscape(Head(text).b) /\ Head(text).b # Backslash
          THEN <<B(Backslash), B(EscapeOf(Head(text).b))>>
          ELSE <<Head(text)>>) \o EscapeStrRawBackslash(Tail(text))

RECURSIVE EscapeStrRec(_)
EscapeStrRec(text) ==
  IF text = <<>> THEN <<>>
  ELSE (IF NeedsEscape(Head(text).b)
          THEN <<B(Backslash), B(EscapeOf(Head(text).b))>>
          ELSE <<Head(text)>>) \o EscapeStrRec(Tail(text))

EscapeStr(text) == EscapeStrRec(text)

\* serde_json::to_vec(message): the JSON text of the message, or the error
\* of a value whose Serialize implementation fails.
ToVec(message) ==
  IF message.ser
    THEN Ok(<<B(Quote)>> \o EscapeStr(message.text) \o <<B(Quote)>>)
    ELSE Err("Json", "Data")

\* serde_json::from_reader over reader.take(limit), for D = String: the
\* bytes are pulled one at a time; Take reports end of input once limit
\* bytes were delivered or the source has no more.  mode is the parser's
\* position: "value" before the string, "str" inside it, "esc" behind a
\* backslash, "end" behind the closing quote (Deserializer::end).
\* A byte that was looked at has been pulled from the source.
\* Mutation of EofOutcome: an empty payload is taken for the empty string.
EofOutcomeEmptyValue(mode, acc) ==
  IF mode \in {"end", "value"} THEN Ok(acc) ELSE Err("Json", "Eof")

\* Mutation of EofOutcome: the end of the payload reader is reported as the
\* io error of a source that ended.
EofOutcomeAsIo(mode, acc) ==
  IF mode = "end" THEN Ok(acc) ELSE Err("Io", "UnexpectedEof")

\* what the parser returns when the payload reader reports end of input:
\* the value when it stood behind the closing quote, else
\* EofWhileParsingValue / EofWhileParsingString, a serde_json::Error
EofOutcome(mode, acc) ==
  CASE mode = "end" -> Ok(acc)
    [] mode = "value" -> Err("Json", "Eof")
    [] OTHER -> Err("Json", "Eof")

RECURSIVE FromReader(_, _, _, _)
FromReader(src, limit, mode, acc) ==
  IF limit = Zero \/ src = <<>>
    THEN [res |-> EofOutcome(mode, acc), rest |-> src, left |-> limit]
  ELSE
    LET c == Head(src).b
        next == Peel(src)
        lim == SSub(limit, One)
    IN  CASE mode = "value" ->
               IF c \in Whitespace THEN FromReader(next, lim, "value", acc)
               ELSE IF c = Quote THEN FromReader(next, lim, "str", <<>>)
               ELSE [res |-> Err("Json", "Syntax"), rest |-> next, left |-> lim]
          [] mode = "str" ->
               IF ~NeedsEscape(c)
                 THEN LET k == SMin(Head(src).n, limit)
                      IN  FromReader(DropRun(src, k), SSub(limit, k), "str",
                                     Append(acc, [b |-> c, n |-> k]))
               ELSE IF c = Quote
                 THEN IF \E i \in 1..Len(acc) : acc[i].b >= 248
                        THEN [res |-> Err("Json", "Syntax"), rest |-> next, left |-> lim]
                        ELSE FromReader(next, lim, "end", acc)
               ELSE IF c = Backslash THEN FromReader(next, lim, "esc", acc)
               ELSE [res |-> Err("Json", "Syntax"), rest |-> next, left |-> lim]
          [] mode = "esc" ->
               IF c \in Escapes
                 THEN FromReader(next, lim, "str", Append(acc, B(Unescape(c))))
                 ELSE [res |-> Err("Json", "Syntax"), rest |-> next, left |-> lim]
          [] mode = "end" ->
               IF c \in Whitespace THEN FromReader(next, lim, "end", acc)
               ELSE [res |-> Err("Json", "Syntax"), rest |-> next, left |-> lim]

----------------------------------------------------------------------------
(* byteorder: the u32 length field in the target's byte order. *)

BytesLE(len) == <<len.lo % 256, len.lo \div 256, len.hi % 256, len.hi \div 256>>

Reverse4(x) == <<x[4], x[3], x[2], x[1]>>

\* Mutation of U32Bytes: the field is always written little-endian.
U32BytesFixedLE(len) == BytesLE(len)

\* u32::to_ne_bytes, as write_u32::<NativeEndian> writes them
U32Bytes(len) == IF endian = "le" THEN BytesLE(len) ELSE Reverse4(BytesLE(len))

\* u32::from_ne_bytes, as read_u32::<NativeEndian> reads them
U32Value(x) ==
  LET y == IF endian = "le" THEN x ELSE Reverse4(x)
  IN  [hi |-> y[3] + 256 * y[4], lo |-> y[1] + 256 * y[2]]

----------------------------------------------------------------------------
(* Integer conversions (std::convert::TryInto). *)

\* Mutation of TryIntoU32: the length is narrowed without the range check.
TryIntoU32Wrapping(len) == [ok |-> TRUE, n |-> [hi |-> len.hi % Limb, lo |-> len.lo]]

\* usize -> u32 on a 64-bit host: TryFromIntError above u32::MAX
TryIntoU32(len) ==
  IF SLe(len, U32Max) THEN [ok |-> TRUE, n |-> len] ELSE [ok |-> FALSE, n |-> Zero]

\* Mutation of TryIntoU64: the length is converted to a signed 32-bit type.
TryIntoU64AsI32(len) ==
  IF len.hi < Limb \div 2 THEN [ok |-> TRUE, n |-> len] ELSE [ok |-> FALSE, n |-> Zero]

\* u32 -> u64, the limit of Read::take: From, so the error is Infallible
TryIntoU64(len) == [ok |-> TRUE, n |-> len]

----------------------------------------------------------------------------
(* generic_read_message *)

\* Mutation of ReadU32: a short length field is completed with zero bytes.
ReadU32ZeroFill(src) ==
  LET x == TakeBytes(src, 4)
  IN  [ok |-> TRUE,
       n |-> U32Value([i \in 1..4 |-> IF i <= Len(x) THEN x[i] ELSE 0]),
       rest |-> DropBytes(src, 4)]

\* reader.read_u32::<NativeEndian>(): read_exact of 4 bytes; a source that
\* ends first gives io::ErrorKind::UnexpectedEof, what it held is consumed.
ReadU32(src) ==
  IF SLt(BLen(src), SZ(4))
    THEN [ok |-> FALSE, n |-> Zero, rest |-> <<>>]
    ELSE [ok |-> TRUE, n |-> U32Value(TakeBytes(src, 4)), rest |-> DropBytes(src, 4)]

\* Mutation of TakeLimit: the payload reader may pull one byte too many.
TakeLimitOffByOne(message_length, rest) == SAdd(message_length, One)

\* Mutation of TakeLimit: the payload reader is not bounded by the length.
TakeLimitUnbounded(message_length, rest) == BLen(rest)

\* reader.take(message_length): the number of bytes the payload reader may pull
TakeLimit(message_length, rest) == message_length

\* The whole call on a source: the result, what is left of the source, the
\* length field that was read (n) and the statements that ran (steps).
GenericReadMessage(src) ==
  LET h == ReadU32(src)
  IN  IF ~h.ok
        THEN [res |-> Err("Io", "UnexpectedEof"), rest |-> h.rest, n |-> Zero,
              steps |-> <<"read_u32">>]
      ELSE LET message_length == TryIntoU64(h.n)
           IN  IF ~message_length.ok
                 THEN [res |-> Err("Infallible", "none"), rest |-> h.rest, n |-> h.n,
                       steps |-> <<"read_u32", "try_into">>]
                 ELSE LET p == FromReader(h.rest, TakeLimit(message_length.n, h.rest),
                                          "value", <<>>)
                      IN  [res |-> p.res, rest |-> p.rest, n |-> h.n,
                           steps |-> <<"read_u32", "try_into", "from_reader">>]

----------------------------------------------------------------------------
(* generic_write_message *)

WriteOp(bytes) == [op |-> "write", bytes |-> bytes]
FlushOp == [op |-> "flush", bytes |-> <<>>]

\* every byte the writer accepted, in order
RECURSIVE Written(_)
Written(w) == IF w = <<>> THEN <<>> ELSE Head(w).bytes \o Written(Tail(w))

\* Mutation of WriteU32: the error of a refused length field is dropped.
WriteU32IgnoreError(w, message_length, k) ==
  [res |-> Ok(<<>>),
   w |-> IF k = 0 THEN w
         ELSE Append(w, WriteOp(SubSeq(Bytes(U32Bytes(message_length)), 1, k)))]

\* writer.write_u32::<NativeEndian>(message_length): the writer accepts the
\* first k of the 4 bytes; fewer than 4 is an io::Error.
WriteU32(w, message_length, k) ==
  LET b == Bytes(U32Bytes(message_length))
  IN  [res |-> IF k = 4 THEN Ok(<<>>) ELSE Err("Io", "WriteFailed"),
       w |-> IF k = 0 THEN w ELSE Append(w, WriteOp(SubSeq(b, 1, k)))]

\* Mutation of WriteAll: the error of a refused payload is dropped.
WriteAllIgnoreError(w, message_bytes, k) ==
  [res |-> Ok(<<>>),
   w |-> IF k = 0 THEN w
         ELSE IF k >= Len(message_bytes) THEN Append(w, WriteOp(message_bytes))
         ELSE Append(w, WriteOp(SubSeq(message_bytes, 1, k)))]

\* writer.write_all(&message_bytes): the writer accepts the first k runs
\* (all of them when k is their number or more)
WriteAll(w, message_bytes, k) ==
  [res |-> IF k >= Len(message_bytes) THEN Ok(<<>>) ELSE Err("Io", "WriteFailed"),
   w |-> IF k = 0 THEN w
         ELSE IF k >= Len(message_bytes) THEN Append(w, WriteOp(message_bytes))
         ELSE Append(w, WriteOp(SubSeq(message_bytes, 1, k)))]

\* Mutation of Flush: the call returns without flushing the writer.
FlushSkipped(w, ok) == [res |-> Ok(<<>>), w |-> w]

\* writer.flush()
Flush(w, ok) ==
  [res |-> IF ok THEN Ok(<<>>) ELSE Err("Io", "FlushFailed"),
   w |-> IF ok THEN Append(w, FlushOp) ELSE w]

\* what the writer does with one call: how much of the length field and of
\* the payload it accepts, and whether the flush succeeds
NoFault(message_bytes) == [hdr |-> 4, body |-> Len(message_bytes), flush |-> TRUE]

\* The whole call on a writer w that behaves as f says.
GenericWriteMessage(message, w, f) ==
  LET message_bytes == ToVec(message)
  IN  IF ~message_bytes.ok THEN [res |-> message_bytes, w |-> w]
      ELSE
        LET message_length == TryIntoU32(BLen(message_bytes.val))
        IN  IF ~message_length.ok THEN [res |-> Err("TryFromInt", "none"), w |-> w]
            ELSE
              LET h == WriteU32(w, message_length.n, f.hdr)
              IN  IF ~h.res.ok THEN h
                  ELSE LET p == WriteAll(h.w, message_bytes.val, f.body)
                       IN  IF ~p.res.ok THEN p ELSE Flush(p.w, f.flush)

----------------------------------------------------------------------------
(* Messages. *)

\* characters of the small messages: quote, backslash, backspace (the
\* characters serde_json escapes); the long messages repeat the letter z
MsgChars == {34, 92, 8}

RECURSIVE Texts(_)
Texts(k) ==
  IF k = 0 THEN {<<>>}
  ELSE Texts(k - 1) \cup
       {Append(t, B(c)) : t \in {u \in Texts(k - 1) : Len(u) = k - 1}, c \in MsgChars}

\* strings of one repeated character whose JSON text is 2^32 - 1 and 2^32
\* bytes long
HugeTexts == {<<[b |-> 122, n |-> SSub(U32Max, SZ(k))]>> : k \in 1..2}

Unserializable == [ser |-> FALSE, text |-> <<>>]

Messages ==
  {[ser |-> TRUE, text |-> t] : t \in Texts(MaxText) \cup HugeTexts}
    \cup {Unserializable}

Threads == {"t1", "t2"}

NoLocals == [id |-> 0, message |-> Unserializable, message_bytes |-> <<>>,
             message_length |-> Zero, res |-> Ok(<<>>), ops |-> <<>>,
             before |-> <<>>, steps |-> <<>>]

IdleThreads ==
  /\ pc = [t \in Threads |-> "idle"]
  /\ loc = [t \in Threads |-> NoLocals]
  /\ stdoutLock = {}
  /\ stdinLock = {}
  /\ order = <<>>

----------------------------------------------------------------------------
(* Loopback, as tests::test_messaging: messages are written into a Vec<u8> *)
(* and read back from it.                                                  *)

Init ==
  /\ endian \in {"le", "be"}
  /\ buffer = <<>>
  /\ input = <<>>
  /\ wcalls = <<>>
  /\ rcalls = <<>>
  /\ IdleThreads

\* generic_write_message(&message, &mut buffer)
LoopWrite(message) ==
  /\ Len(wcalls) < MaxFrames
  /\ LET r == GenericWriteMessage(message, buffer, NoFault(ToVec(message).val))
         ops == SubSeq(r.w, Len(buffer) + 1, Len(r.w))
     IN  /\ buffer' = r.w
         /\ input' = input \o Written(ops)
         /\ wcalls' = Append(wcalls, [thread |-> "main", id |-> 0, message |-> message,
                                      res |-> r.res, ops |-> ops])
  /\ UNCHANGED <<endian, rcalls, pc, loc, stdoutLock, stdinLock, order>>

\* generic_read_message::<String, _>(&mut reader) on the unread bytes
ReadCall ==
  /\ Len(rcalls) < MaxReads
  /\ LET r == GenericReadMessage(input)
     IN  /\ input' = r.rest
         /\ rcalls' = Append(rcalls, [thread |-> "main", id |-> 0, before |-> input,
                                      res |-> r.res, rest |-> r.rest, n |-> r.n,
                                      steps |-> r.steps])
  /\ UNCHANGED <<endian, buffer, wcalls, pc, loc, stdoutLock, stdinLock, order>>

\* the read of the loopback: once something was written
LoopRead == input # <<>> /\ ReadCall

Next ==
  \/ \E message \in Messages : LoopWrite(message)
  \/ LoopRead

Spec == Init /\ [][Next]_vars

----------------------------------------------------------------------------
(* Properties of the loopback. *)

\* the write calls that returned Ok, in order
OkWrites == SelectSeq(wcalls, LAMBDA c : c.res.ok)

\* the length field at the front of a byte string, as the target reads it
FrameLen(s) == U32Value(TakeBytes(s, 4))

\* C1: a read from a buffer that holds exactly what one successful
\* generic_write_message(m) wrote succeeds and returns m.
C1_RoundTrip ==
  \A i \in DOMAIN rcalls, j \in DOMAIN wcalls :
    (wcalls[j].res.ok /\ rcalls[i].before = Written(wcalls[j].ops))
      => rcalls[i].res = Ok(wcalls[j].message.text)

\* C1 witness: a message made of a backslash went through the buffer and
\* came back, and so did a string whose JSON text is 2^32 - 1 bytes long.
C1_Witness ==
  /\ Len(rcalls) = 2 /\ Len(wcalls) = 2
  /\ wcalls[1].message.text = <<B(Backslash)>>
  /\ rcalls[1].before = Written(wcalls[1].ops)
  /\ rcalls[1].res = Ok(<<B(Backslash)>>)
  /\ wcalls[2].message.text = <<[b |-> 122, n |-> SSub(U32Max, SZ(2))]>>
  /\ rcalls[2].before = Written(wcalls[2].ops)
  /\ rcalls[2].res.ok

\* C2: what a successful generic_write_message wrote is the 4-byte
\* native-endian length followed by the serialized payload and nothing else,
\* and the length field equals the number of bytes written minus 4.
C2_LengthExact ==
  \A j \in DOMAIN wcalls :
    wcalls[j].res.ok =>
      LET w == Written(wcalls[j].ops)
      IN  /\ SLe(SZ(4), BLen(w))
          /\ FrameLen(w) = SSub(BLen(w), SZ(4))
          /\ DropBytes(w, 4) = ToVec(wcalls[j].message).val

\* C2 witness: on a big-endian target, a frame of a two-byte payload and a
\* frame whose length field is 0xFFFFFFFF were written.
C2_Witness ==
  /\ endian = "be"
  /\ \E j \in DOMAIN wcalls :
       wcalls[j].res.ok /\ TakeBytes(Written(wcalls[j].ops), 4) = <<0, 0, 0, 2>>
  /\ \E j \in DOMAIN wcalls :
       wcalls[j].res.ok /\ TakeBytes(Written(wcalls[j].ops), 4) = <<255, 255, 255, 255>>

\* C4: with whole frames concatenated in the source, every sequential read
\* succeeds, consumes exactly 4 + N bytes (N its frame's length field),
\* leaves the bytes behind them untouched, and returns the messages in the
\* order they were written.
C4_NoOverRead ==
  \A i \in DOMAIN rcalls :
    LET c == rcalls[i]
        len == FrameLen(c.before)
    IN  /\ c.res.ok
        /\ i <= Len(OkWrites)
        /\ c.res.val = OkWrites[i].message.text
        /\ SSub(BLen(c.before), BLen(c.rest)) = SAdd(len, SZ(4))
        /\ c.rest = DropSize(c.before, SAdd(len, SZ(4)))

\* C4 witness: two different frames lay in the source together and two
\* reads in a row returned them in order.
C4_Witness ==
  /\ Len(rcalls) = 2
  /\ rcalls[1].rest # <<>>
  /\ rcalls[2].before = rcalls[1].rest
  /\ rcalls[1].res.ok /\ rcalls[2].res.ok
  /\ rcalls[1].res.val # rcalls[2].res.val
  /\ rcalls[2].rest = <<>>

\* C5: a message whose serialized payload is longer than 4,294,967,295
\* bytes fails with TryFromInt and nothing reaches the writer.
C5_OversizeRejected ==
  \A j \in DOMAIN wcalls :
    LET p == ToVec(wcalls[j].message)
    IN  (p.ok /\ SLt(U32Max, BLen(p.val)))
          => /\ wcalls[j].res = Err("TryFromInt", "none")
             /\ wcalls[j].ops = <<>>

\* C5 witness: a call with a payload of 2^32 bytes returned, after a call
\* with a payload of 2^32 - 1 bytes had succeeded.
C5_Witness ==
  /\ Len(wcalls) = 2
  /\ wcalls[1].res.ok
  /\ BLen(ToVec(wcalls[1].message).val) = U32Max
  /\ BLen(ToVec(wcalls[2].message).val) = SAdd(U32Max, One)
  /\ ~wcalls[2].res.ok
  /\ Written(buffer) = Written(wcalls[1].ops)

\* C17: for the length field N of every call, up to 4,294,967,295, the
\* conversion to the type of the payload bound succeeds and gives N, the
\* bound of the payload reader is N, the call does not fail with a size
\* error (Infallible, TryFromInt), it goes on to the payload, and a call
\* that returns a value has taken N bytes behind the length field.
C17_WideningExact ==
  \A i \in DOMAIN rcalls :
    LET c == rcalls[i]
    IN  SLe(SZ(4), BLen(c.before)) =>
          LET n == FrameLen(c.before)
          IN  /\ TryIntoU64(n) = [ok |-> TRUE, n |-> n]
              /\ TakeLimit(TryIntoU64(n).n, c.rest) = n
              /\ c.res.err \notin {"Infallible", "TryFromInt"}
              /\ c.steps = <<"read_u32", "try_into", "from_reader">>
              /\ c.res.ok => SSub(BLen(c.before), BLen(c.rest)) = SAdd(n, SZ(4))

\* C17 witness: a call whose length field is 4,294,967,295 returned a value
\* having taken 4 + 4,294,967,295 bytes.
C17_Witness ==
  /\ Len(rcalls) = 1
  /\ SLe(SZ(4), BLen(rcalls[1].before))
  /\ FrameLen(rcalls[1].before) = U32Max
  /\ rcalls[1].res.ok
  /\ SSub(BLen(rcalls[1].before), BLen(rcalls[1].rest)) = SAdd(U32Max, SZ(4))

----------------------------------------------------------------------------
(* Reading arbitrary sources: a length field, whole or cut short, followed *)
(* by any bytes, followed or not by a well-formed frame; then end of input.*)

\* bytes of the generated sources: quote, backslash, backspace, b, space
SrcChars == {34, 92, 8, 98, 32}

RECURSIVE Payloads(_)
Payloads(k) ==
  IF k = 0 THEN {<<>>}
  ELSE Payloads(k - 1) \cup
       {Append(t, B(c)) : t \in {u \in Payloads(k - 1) : Len(u) = k - 1}, c \in SrcChars}

\* the frame generic_write_message writes for a text
Frame(text) ==
  LET p == ToVec([ser |-> TRUE, text |-> text]).val
  IN  Bytes(U32Bytes(BLen(p))) \o p

Tails == {<<>>} \cup {Frame(t) : t \in Texts(1)}

Sources ==
  {Bytes(U32Bytes(SZ(len))) \o p \o t :
     len \in 0..MaxLenField, p \in Payloads(MaxPayload), t \in Tails}
    \cup {Bytes(SubSeq(U32Bytes(SZ(len)), 1, k)) : len \in 0..MaxLenField, k \in 0..3}

InitRead ==
  /\ endian \in {"le", "be"}
  /\ input \in Sources
  /\ buffer = <<>>
  /\ wcalls = <<>>
  /\ rcalls = <<>>
  /\ IdleThreads

NextRead == ReadCall

SpecRead == InitRead /\ [][NextRead]_vars

\* the bytes a source held behind its length field
Supplied(before) == SSub(BLen(before), SZ(4))

\* C3: a source that holds a length field N >= 1, fewer than N payload bytes
\* and then ends never makes generic_read_message return a value (the claim
\* asks for an Io error besides).
C3_TruncationDetected ==
  \A i \in DOMAIN rcalls :
    LET c == rcalls[i]
    IN  (/\ SLe(SZ(4), BLen(c.before))
         /\ SLe(One, FrameLen(c.before))
         /\ SLt(Supplied(c.before), FrameLen(c.before)))
          => ~c.res.ok

\* C6: a source that ends before 4 bytes makes generic_read_message fail
\* with an Io error, without a value and without the payload being read or
\* deserialized.
C6_ShortHeader ==
  \A i \in DOMAIN rcalls :
    SLt(BLen(rcalls[i].before), SZ(4))
      => /\ rcalls[i].res = Err("Io", "UnexpectedEof")
         /\ rcalls[i].steps = <<"read_u32">>

\* C6 witness: a read of a source of 3 bytes and then a read of the same
\* source, now at its end, have returned.
C6_Witness ==
  /\ Len(rcalls) = 2
  /\ BLen(rcalls[1].before) = SZ(3)
  /\ rcalls[2].before = <<>>
  /\ ~rcalls[2].res.ok

\* the source ends behind a whole length field N and before N payload bytes
Truncated(before) ==
  /\ SLe(SZ(4), BLen(before))
  /\ SLt(Supplied(before), FrameLen(before))

Consumed(c) == SSub(BLen(c.before), BLen(c.rest))

\* C12: a call never takes more than 4 + N bytes from its source, N the
\* length field it read (fewer than 4 when the length field was cut short),
\* whether it returns a value or any error and whatever lies behind; what it
\* leaves is the source without the bytes it took.
C12_BoundedConsumption ==
  \A i \in DOMAIN rcalls :
    LET c == rcalls[i]
    IN  /\ c.rest = DropSize(c.before, Consumed(c))
        /\ IF SLe(SZ(4), BLen(c.before))
             THEN /\ c.n = FrameLen(c.before)
                  /\ SLe(Consumed(c), SAdd(c.n, SZ(4)))
             ELSE SLt(Consumed(c), SZ(4))

\* C12 witness: a source held a length field of 1, a quote, and more bytes
\* behind it; the call failed having taken 5 bytes and left the others.
C12_Witness ==
  /\ Len(rcalls) = 1
  /\ ~rcalls[1].res.ok
  /\ rcalls[1].n = One
  /\ Consumed(rcalls[1]) = SZ(5)
  /\ SLt(SZ(7), BLen(rcalls[1].before))
  /\ rcalls[1].rest # <<>>

\* C13: whenever the source holds at least 4 + N bytes, N its length field,
\* the call has taken exactly 4 + N bytes when it returns, with a value or
\* with an error, so that the next call starts at the next frame.
C13_WholePayloadConsumed ==
  \A i \in DOMAIN rcalls :
    LET c == rcalls[i]
    IN  (/\ SLe(SZ(4), BLen(c.before))
         /\ SLe(SAdd(FrameLen(c.before), SZ(4)), BLen(c.before)))
          => Consumed(c) = SAdd(FrameLen(c.before), SZ(4))

\* C16: a call on a source whose length field is 0 fails with the Json
\* error Eof, has taken the 4 bytes of the length field and nothing else,
\* and when a valid frame follows, the next call returns its message.
C16_ZeroLength ==
  \A i \in DOMAIN rcalls :
    LET c == rcalls[i]
    IN  (SLe(SZ(4), BLen(c.before)) /\ FrameLen(c.before) = Zero) =>
          /\ c.res = Err("Json", "Eof")
          /\ Consumed(c) = SZ(4)
          /\ c.rest = DropBytes(c.before, 4)
          /\ \A t \in Texts(MaxText) :
               (c.rest = Frame(t) /\ i + 1 \in DOMAIN rcalls)
                 => rcalls[i + 1].res = Ok(t)

\* C16 witness: a frame of length 0 lay before the frame of a one-backslash
\* message; the first call failed on it and the second returned the message.
C16_Witness ==
  /\ Len(rcalls) = 2
  /\ SLe(SZ(4), BLen(rcalls[1].before))
  /\ FrameLen(rcalls[1].before) = Zero
  /\ rcalls[1].rest = Frame(<<B(Backslash)>>)
  /\ ~rcalls[1].res.ok
  /\ rcalls[2].res = Ok(<<B(Backslash)>>)

----------------------------------------------------------------------------
(* read_message and write_message called from threads: standard input and  *)
(* standard output behind their locks.  Standard output may refuse bytes.  *)

StdMessages ==
  {[ser |-> TRUE, text |-> <<B(98)>>],
   [ser |-> TRUE, text |-> <<B(Quote)>>],
   [ser |-> TRUE, text |-> <<[b |-> 122, n |-> SSub(U32Max, One)]>>],
   Unserializable}

\* what standard input holds before it ends: two frames; a frame cut short
StdSources ==
  {Frame(<<B(98)>>) \o Frame(<<B(Quote)>>),
   Bytes(U32Bytes(SZ(3))) \o <<B(Quote), B(98)>>}

\* the byte order plays no part in the locks or in what a writer refuses:
\* the threads run on a little-endian target (Spec and SpecRead have both)
InitStd ==
  /\ endian = "le"
  /\ input \in StdSources
  /\ buffer = <<>>
  /\ wcalls = <<>>
  /\ rcalls = <<>>
  /\ IdleThreads

Inside(t) == pc[t] # "idle"

CallsBegun == Len(wcalls) + Len(rcalls) + Cardinality({t \in Threads : Inside(t)})

\* Mutation of LockFree: the lock admits two holders at a time.
LockSharedByTwo(lock) == Cardinality(lock) < 2

\* Mutation of LockFree: lock() returns although another thread holds the guard.
LockFreeAlways(lock) == TRUE

\* Stdout::lock / Stdin::lock return once no other thread holds the guard
LockFree(lock) == lock = {}

\* Mutation of Release: the guard is dropped on the success path only.
ReleaseOnSuccess(lock, t, res) == IF res.ok THEN lock \ {t} ELSE lock

\* the guard goes out of scope when the call returns, whatever it returns
Release(lock, t, res) == lock \ {t}

\* the operations w gained over buffer, and the call they belong to
NewOps(w) == SubSeq(w, Len(buffer) + 1, Len(w))
Tag(w, id) == [i \in 1..(Len(w) - Len(buffer)) |-> id]

\* a thread calls write_message(&message)
WriteBegin(t, message) ==
  /\ pc[t] = "idle"
  /\ CallsBegun < MaxCalls
  /\ pc' = [pc EXCEPT ![t] = "w_lock"]
  /\ loc' = [loc EXCEPT ![t] = [NoLocals EXCEPT !.id = CallsBegun + 1,
                                               !.message = message]]
  /\ UNCHANGED <<endian, buffer, input, wcalls, rcalls, stdoutLock, stdinLock, order>>

\* let stdout = stdout.lock(); and, with the guard as the writer,
\* serde_json::to_vec(message)? and message_bytes.len().try_into()?
WriteLock(t) ==
  /\ pc[t] = "w_lock"
  /\ LockFree(stdoutLock)
  /\ stdoutLock' = stdoutLock \cup {t}
  /\ LET message_bytes == ToVec(loc[t].message)
         message_length == TryIntoU32(BLen(message_bytes.val))
     IN  IF ~message_bytes.ok
           THEN /\ loc' = [loc EXCEPT ![t].res = message_bytes]
                /\ pc' = [pc EXCEPT ![t] = "w_ret"]
         ELSE IF ~message_length.ok
           THEN /\ loc' = [loc EXCEPT ![t].res = Err("TryFromInt", "none"),
                                      ![t].message_bytes = message_bytes.val]
                /\ pc' = [pc EXCEPT ![t] = "w_ret"]
         ELSE /\ loc' = [loc EXCEPT ![t].message_bytes = message_bytes.val,
                                    ![t].message_length = message_length.n]
              /\ pc' = [pc EXCEPT ![t] = "w_hdr"]
  /\ UNCHANGED <<endian, buffer, input, wcalls, rcalls, stdinLock, order>>

\* writer.write_u32::<NativeEndian>(message_length)?
WriteHeader(t, k) ==
  /\ pc[t] = "w_hdr"
  /\ LET r == WriteU32(buffer, loc[t].message_length, k)
     IN  /\ buffer' = r.w
         /\ order' = order \o Tag(r.w, loc[t].id)
         /\ loc' = [loc EXCEPT ![t].res = r.res, ![t].ops = @ \o NewOps(r.w)]
         /\ pc' = [pc EXCEPT ![t] = IF r.res.ok THEN "w_body" ELSE "w_ret"]
  /\ UNCHANGED <<endian, input, wcalls, rcalls, stdoutLock, stdinLock>>

\* writer.write_all(&message_bytes)?
WriteBody(t, k) ==
  /\ pc[t] = "w_body"
  /\ LET r == WriteAll(buffer, loc[t].message_bytes, k)
     IN  /\ buffer' = r.w
         /\ order' = order \o Tag(r.w, loc[t].id)
         /\ loc' = [loc EXCEPT ![t].res = r.res, ![t].ops = @ \o NewOps(r.w)]
         /\ pc' = [pc EXCEPT ![t] = IF r.res.ok THEN "w_flush" ELSE "w_ret"]
  /\ UNCHANGED <<endian, input, wcalls, rcalls, stdoutLock, stdinLock>>

\* writer.flush().map_err(MessagingError::Io)
WriteFlush(t, ok) ==
  /\ pc[t] = "w_flush"
  /\ LET r == Flush(buffer, ok)
     IN  /\ buffer' = r.w
         /\ order' = order \o Tag(r.w, loc[t].id)
         /\ loc' = [loc EXCEPT ![t].res = r.res, ![t].ops = @ \o NewOps(r.w)]
         /\ pc' = [pc EXCEPT ![t] = "w_ret"]
  /\ UNCHANGED <<endian, input, wcalls, rcalls, stdoutLock, stdinLock>>

\* write_message returns: the guard is dropped
WriteReturn(t) ==
  /\ pc[t] = "w_ret"
  /\ stdoutLock' = Release(stdoutLock, t, loc[t].res)
  /\ wcalls' = Append(wcalls, [thread |-> t, id |-> loc[t].id,
                               message |-> loc[t].message,
                               res |-> loc[t].res, ops |-> loc[t].ops])
  /\ pc' = [pc EXCEPT ![t] = "idle"]
  /\ loc' = [loc EXCEPT ![t] = NoLocals]
  /\ UNCHANGED <<endian, buffer, input, rcalls, stdinLock, order>>

\* a thread calls read_message::<String>()
ReadBegin(t) ==
  /\ pc[t] = "idle"
  /\ CallsBegun < MaxCalls
  /\ pc' = [pc EXCEPT ![t] = "r_lock"]
  /\ loc' = [loc EXCEPT ![t] = [NoLocals EXCEPT !.id = CallsBegun + 1]]
  /\ UNCHANGED <<endian, buffer, input, wcalls, rcalls, stdoutLock, stdinLock, order>>

\* let stdin = stdin.lock();
ReadLock(t) ==
  /\ pc[t] = "r_lock"
  /\ LockFree(stdinLock)
  /\ stdinLock' = stdinLock \cup {t}
  /\ pc' = [pc EXCEPT ![t] = "r_hdr"]
  /\ UNCHANGED <<endian, buffer, input, wcalls, rcalls, loc, stdoutLock, order>>

\* reader.read_u32::<NativeEndian>()?.try_into()?
ReadHeader(t) ==
  /\ pc[t] = "r_hdr"
  /\ LET h == ReadU32(input)
         message_length == TryIntoU64(h.n)
     IN  /\ input' = h.rest
         /\ IF ~h.ok
              THEN /\ loc' = [loc EXCEPT ![t].res = Err("Io", "UnexpectedEof"),
                                         ![t].before = input,
                                         ![t].steps = <<"read_u32">>]
                   /\ pc' = [pc EXCEPT ![t] = "r_ret"]
            ELSE IF ~message_length.ok
              THEN /\ loc' = [loc EXCEPT ![t].res = Err("Infallible", "none"),
                                         ![t].before = input,
                                         ![t].message_length = h.n,
                                         ![t].steps = <<"read_u32", "try_into">>]
                   /\ pc' = [pc EXCEPT ![t] = "r_ret"]
            ELSE /\ loc' = [loc EXCEPT ![t].message_length = message_length.n,
                                       ![t].before = input,
                                       ![t].steps = <<"read_u32", "try_into">>]
                 /\ pc' = [pc EXCEPT ![t] = "r_body"]
  /\ UNCHANGED <<endian, buffer, wcalls, rcalls, stdoutLock, stdinLock, order>>

\* serde_json::from_reader(reader.take(message_length)).map_err(Into::into)
ReadBody(t) ==
  /\ pc[t] = "r_body"
  /\ LET p == FromReader(input, TakeLimit(loc[t].message_length, input), "value", <<>>)
     IN  /\ input' = p.rest
         /\ loc' = [loc EXCEPT ![t].res = p.res,
                               ![t].steps = Append(@, "from_reader")]
  /\ pc' = [pc EXCEPT ![t] = "r_ret"]
  /\ UNCHANGED <<endian, buffer, wcalls, rcalls, stdoutLock, stdinLock, order>>

\* read_message returns: the guard is dropped
ReadReturn(t) ==
  /\ pc[t] = "r_ret"
  /\ stdinLock' = Release(stdinLock, t, loc[t].res)
  /\ rcalls' = Append(rcalls, [thread |-> t, id |-> loc[t].id,
                               before |-> loc[t].before, res |-> loc[t].res,
                               rest |-> input, n |-> loc[t].message_length,
                               steps |-> loc[t].steps])
  /\ pc' = [pc EXCEPT ![t] = "idle"]
  /\ loc' = [loc EXCEPT ![t] = NoLocals]
  /\ UNCHANGED <<endian, buffer, input, wcalls, stdoutLock, order>>

\* how much of a write standard output takes: nothing, a part, or all of it
HeaderAccepted == {0, 2, 4}
BodyAccepted == {0, 1, 4}

NextStd ==
  \/ \E t \in Threads, message \in StdMessages : WriteBegin(t, message)
  \/ \E t \in Threads : WriteLock(t)
  \/ \E t \in Threads, k \in HeaderAccepted : WriteHeader(t, k)
  \/ \E t \in Threads, k \in BodyAccepted : WriteBody(t, k)
  \/ \E t \in Threads, ok \in BOOLEAN : WriteFlush(t, ok)
  \/ \E t \in Threads : WriteReturn(t)
  \/ \E t \in Threads : ReadBegin(t)
  \/ \E t \in Threads : ReadLock(t)
  \/ \E t \in Threads : ReadHeader(t)
  \/ \E t \in Threads : ReadBody(t)
  \/ \E t \in Threads : ReadReturn(t)

SpecStd == InitStd /\ [][NextStd]_vars

----------------------------------------------------------------------------
(* Properties of write_message and read_message under threads. *)

\* the frame a message is sent as; none when it cannot be serialized or
\* does not fit the length field
FrameOf(message) ==
  IF ToVec(message).ok /\ SLe(BLen(ToVec(message).val), U32Max)
    THEN Frame(message.text)
    ELSE <<>>

IsPrefix(a, b) == Len(a) <= Len(b) /\ SubSeq(b, 1, Len(a)) = a

ProperPrefix(a, b) == a # <<>> /\ a # b /\ IsPrefix(a, b)

\* the three operations of a successful call, in order
FrameOps(message) ==
  LET p == ToVec(message).val
  IN  <<WriteOp(Bytes(U32Bytes(BLen(p)))), WriteOp(p), FlushOp>>

\* C7: when a call returns Ok the writer has received from it the 4-byte
\* length field, then the whole payload, then one flush, and nothing else;
\* a call about to return Ok has its flush behind it.
C7_WriteThenFlush ==
  /\ \A j \in DOMAIN wcalls :
       wcalls[j].res.ok => wcalls[j].ops = FrameOps(wcalls[j].message)
  /\ \A t \in Threads :
       (pc[t] = "w_ret" /\ loc[t].res.ok) => loc[t].ops = FrameOps(loc[t].message)

\* C7 witness: a call returned Ok after another call's flush had failed.
C7_Witness ==
  /\ Len(wcalls) = 2
  /\ wcalls[1].res = Err("Io", "FlushFailed")
  /\ wcalls[2].res.ok
  /\ Len(wcalls[2].ops) = 3

\* C8 (as claimed): a call places its complete frame on the sink or, when it
\* returns an error, leaves no proper non-empty prefix of its frame there.
C8_NoPartialFrame ==
  \A j \in DOMAIN wcalls :
    LET w == Written(wcalls[j].ops)
        f == FrameOf(wcalls[j].message)
    IN  /\ wcalls[j].res.ok => w = f
        /\ ~wcalls[j].res.ok => ~ProperPrefix(w, f)

\* C8 (amended): a call that returns Ok has placed its complete frame; a call
\* that returns an error has placed a prefix of its frame, which is empty
\* when the error is not an Io error.
C8_PrefixOnError ==
  \A j \in DOMAIN wcalls :
    LET w == Written(wcalls[j].ops)
        f == FrameOf(wcalls[j].message)
    IN  /\ wcalls[j].res.ok => w = f
        /\ ~wcalls[j].res.ok => IsPrefix(w, f)
        /\ (~wcalls[j].res.ok /\ wcalls[j].res.err # "Io") => w = <<>>

\* C8 witness: a call failed with the length field alone on the sink and
\* the next call's whole frame was appended behind it.
C8_Witness ==
  /\ Len(wcalls) = 2
  /\ wcalls[1].res = Err("Io", "WriteFailed")
  /\ BLen(Written(wcalls[1].ops)) = SZ(4)
  /\ wcalls[2].res.ok
  /\ Written(buffer) = Written(wcalls[1].ops) \o FrameOf(wcalls[2].message)

\* C9: a lock is held only by a thread inside its call: once read_message or
\* write_message has returned, with a value or with any error, the thread
\* no longer holds the lock, so the lock is free whenever no call is past
\* its lock() line.
C9_LockReleased ==
  /\ \A t \in stdoutLock : pc[t] \in {"w_hdr", "w_body", "w_flush", "w_ret"}
  /\ \A t \in stdinLock : pc[t] \in {"r_hdr", "r_body", "r_ret"}

\* C9 witness: a write failed and returned, and the other thread, which
\* called afterwards or was waiting, now holds the standard-output lock;
\* the standard-input lock is free.
C9_Witness ==
  /\ Len(wcalls) = 1
  /\ ~wcalls[1].res.ok
  /\ \E t \in Threads : t # wcalls[1].thread /\ stdoutLock = {t}
  /\ stdinLock = {}

\* an Io error has been met by a write call
IoFault ==
  \/ \E j \in DOMAIN wcalls : wcalls[j].res.err = "Io"
  \/ \E t \in Threads : loc[t].res.err = "Io"

RECURSIVE Frames(_)
Frames(calls) ==
  IF calls = <<>> THEN <<>> ELSE FrameOf(Head(calls).message) \o Frames(Tail(calls))

\* what the calls in progress have written so far
InProgress == Written(loc["t1"].ops) \o Written(loc["t2"].ops)

\* C10: at most one thread holds standard output; the operations of one call
\* are never separated by those of another (an operation followed later by
\* one of the same call is followed at once by one of the same call); and,
\* as long as standard output
\* accepts what it is given, its bytes are the whole frames of the calls
\* that returned followed by a prefix of the frame of the call in progress.
C10_WriterExclusion ==
  /\ Cardinality(stdoutLock) <= 1
  /\ \A i \in DOMAIN order : \A k \in (i + 1)..Len(order) :
       order[k] = order[i] => order[i + 1] = order[i]
  /\ ~IoFault =>
       /\ Written(buffer) = Frames(OkWrites) \o InProgress
       /\ \A t \in Threads : IsPrefix(Written(loc[t].ops), FrameOf(loc[t].message))

\* C10 witness: two calls overlapped: the one that began second took the
\* lock first and returned, the one that began first has since written its
\* whole frame behind it, and the two frames differ.
C10_Witness ==
  /\ Len(wcalls) = 1 /\ wcalls[1].res.ok /\ wcalls[1].id = 2
  /\ \E t \in Threads :
       /\ pc[t] = "w_flush" /\ loc[t].id = 1
       /\ loc[t].message # wcalls[1].message
       /\ Written(buffer) = FrameOf(wcalls[1].message) \o FrameOf(loc[t].message)

\* the messages of the frames standard input carries when all are valid
StdTexts == << <<B(98)>>, <<B(Quote)>> >>

\* standard input from the end of its k-th frame on
RECURSIVE StdFrom(_)
StdFrom(k) == IF k >= Len(StdTexts) THEN <<>> ELSE Frame(StdTexts[k + 1]) \o StdFrom(k + 1)

\* the read call of a thread has its length field behind it
PastHeader(t) == pc[t] \in {"r_body", "r_ret"}

\* standard input as it was when the first read began: every read starts
\* where the input stands or stood, and the first saw the most
StdinAtStart ==
  IF rcalls # <<>> THEN rcalls[1].before
  ELSE IF \E t \in Threads : PastHeader(t)
    THEN (CHOOSE b \in {loc[t].before : t \in {u \in Threads : PastHeader(u)}} :
            \A t \in Threads : PastHeader(t) => Len(loc[t].before) <= Len(b))
  ELSE input

\* C14: at most one thread holds standard input; and when it carries valid
\* frames, the i-th call to return started at the end of frame i - 1, took
\* frame i whole, returned its message and left the input at the end of
\* frame i (a call behind the last frame finds the end of input); a call in
\* progress started at a frame boundary and nothing was taken from the
\* input by another call since its own last read.
C14_ReaderExclusion ==
  /\ Cardinality(stdinLock) <= 1
  /\ LET from == [k \in 0..(MaxCalls + 1) |-> StdFrom(k)]
     IN  StdinAtStart = from[0] =>
           /\ \A i \in DOMAIN rcalls :
                /\ rcalls[i].before = from[i - 1]
                /\ rcalls[i].rest = from[i]
                /\ IF i <= Len(StdTexts)
                     THEN rcalls[i].res = Ok(StdTexts[i])
                     ELSE rcalls[i].res = Err("Io", "UnexpectedEof")
           /\ \A t \in Threads :
                /\ PastHeader(t) => loc[t].before = from[Len(rcalls)]
                /\ pc[t] = "r_body" => input = DropBytes(loc[t].before, 4)
                /\ (pc[t] = "r_ret" /\ loc[t].res.ok) =>
                     /\ input = from[Len(rcalls) + 1]
                     /\ loc[t].res = Ok(StdTexts[Len(rcalls) + 1])

\* C14 witness: two read calls overlapped: the one that began second took
\* the lock first and returned the first frame's message, and the one that
\* began first has since read the second frame whole.
C14_Witness ==
  /\ Len(rcalls) = 1 /\ rcalls[1].id = 2 /\ rcalls[1].res = Ok(StdTexts[1])
  /\ \E t \in Threads :
       /\ pc[t] = "r_ret" /\ loc[t].id = 1
       /\ loc[t].res = Ok(StdTexts[2])
       /\ input = <<>>

\* the statements of generic_read_message, in order
ReadSteps == <<"read_u32", "try_into", "from_reader">>

\* what a write call may have returned (res) and handed to the writer (ops):
\* the error of the first step that failed and nothing of the steps behind
\* it, or Ok with every step done once
WriteOutcome(message, res, ops) ==
  LET p == ToVec(message)
      full == FrameOps(message)
  IN  IF ~p.ok THEN res = p /\ ops = <<>>
      ELSE IF ~TryIntoU32(BLen(p.val)).ok
        THEN res = Err("TryFromInt", "none") /\ ops = <<>>
      ELSE \/ res = Ok(<<>>) /\ ops = full
           \/ /\ res = Err("Io", "WriteFailed")
              /\ \/ ops = <<>>
                 \/ Len(ops) = 1 /\ ProperPrefix(ops[1].bytes, full[1].bytes)
                                /\ ops[1].op = "write"
                 \/ ops = <<full[1]>>
                 \/ Len(ops) = 2 /\ ops[1] = full[1] /\ ops[2].op = "write"
                                /\ ProperPrefix(ops[2].bytes, full[2].bytes)
           \/ res = Err("Io", "FlushFailed") /\ ops = SubSeq(full, 1, 2)

\* what a read call may have returned: the error of the first statement
\* that failed, with the statements before it run once and none behind it
ReadOutcome(before, res, steps) ==
  IF SLt(BLen(before), SZ(4))
    THEN res = Err("Io", "UnexpectedEof") /\ steps = SubSeq(ReadSteps, 1, 1)
    ELSE /\ steps = ReadSteps
         /\ res = FromReader(DropBytes(before, 4), FrameLen(before), "value", <<>>).res

\* C15: every call that returned did so with the error of the first step
\* that failed, having run no step behind it and no step twice, or with Ok
\* after every step succeeded; and a call in progress stands before a later
\* step only with every earlier step done once and without error.
C15_ErrorsSurfaced ==
  /\ \A j \in DOMAIN wcalls :
       WriteOutcome(wcalls[j].message, wcalls[j].res, wcalls[j].ops)
  /\ \A i \in DOMAIN rcalls :
       ReadOutcome(rcalls[i].before, rcalls[i].res, rcalls[i].steps)
  /\ \A t \in Threads :
       /\ pc[t] = "w_ret" => WriteOutcome(loc[t].message, loc[t].res, loc[t].ops)
       /\ pc[t] = "w_hdr" => loc[t].res.ok /\ loc[t].ops = <<>>
       /\ pc[t] = "w_body" =>
            loc[t].res.ok /\ loc[t].ops = SubSeq(FrameOps(loc[t].message), 1, 1)
       /\ pc[t] = "w_flush" =>
            loc[t].res.ok /\ loc[t].ops = SubSeq(FrameOps(loc[t].message), 1, 2)
       /\ pc[t] = "r_body" =>
            /\ loc[t].res.ok
            /\ loc[t].steps = SubSeq(ReadSteps, 1, 2)
            /\ SLe(SZ(4), BLen(loc[t].before))
       /\ pc[t] = "r_ret" => ReadOutcome(loc[t].before, loc[t].res, loc[t].steps)

\* C15 witness: a write call returned the Io error of its payload write
\* with the length field and a part of the payload handed over and no
\* flush, and a read call returned the Json error of its payload.
C15_Witness ==
  /\ Len(wcalls) = 1 /\ Len(rcalls) = 1
  /\ wcalls[1].res = Err("Io", "WriteFailed")
  /\ Len(wcalls[1].ops) = 2
  /\ rcalls[1].res = Err("Json", "Eof")
  /\ rcalls[1].steps = ReadSteps

====
